---------------------------- MODULE Spec2Model ----------------------------
(***************************************************************************)
(* State-machine model of src/script.js: the Portfolio page controller.    *)
(*                                                                         *)
(* The page markup, the stored preference and the ambient colour scheme    *)
(* are the environment: Init draws them from small sets.  Initialize is    *)
(* Portfolio.init(); every other action is one delivery of a DOM event or  *)
(* timer callback to the handler that setupEventListeners / typeEffect /   *)
(* showSuccessMessage / setupScrollAnimations registered for it.           *)
(*                                                                         *)
(* Text that the code inspects character by character (field values,       *)
(* field ids, messages, the typing text) is a sequence of one-character    *)
(* strings.  A JavaScript null is the string "null".                       *)
(*                                                                         *)
(* Markup assumptions (the DOM contract of the page):                      *)
(*   - the theme-toggle button contains its <i> icon;                      *)
(*   - the contact form comes with its three inputs, each followed by its  *)
(*     .error-message sibling, and with the #form-success element;         *)
(*   - the body carries no dark-mode class and the menu panel and the      *)
(*     hamburger carry no active class in the markup.                      *)
(***************************************************************************)
EXTENDS Integers, Sequences, FiniteSets, TLC

---------------------------------------------------------------------------
(* Bounds of the model *)

\* longest text of the .typing-text element
MaxTextLen == 2
\* most .fade-in elements on the page
MaxFade == 2
\* most success-message timeouts pending at once
MaxTimers == 2
\* longest email value of the exhaustive check of the email pattern
MaxEmailLen == 5
\* largest amount of time (ms) one Advance step lets pass
TimeStep == 2500
\* offsetTop of the section the "#about" anchors point to
AboutOffsetTop == 130
\* the calendar year new Date().getFullYear() reports
CurrentYear == 2026

(* Program constants *)

\* setTimeout(..., 5000) in showSuccessMessage
SuccessDelay == 5000
\* setInterval(..., 100) in typeEffect
TypingPeriod == 100
\* window.scrollY > 50 in handleNavbarScroll
ScrollThreshold == 50
\* targetElement.offsetTop - 80 in handleSmoothScroll
HeaderOffset == 80

---------------------------------------------------------------------------
(* The page *)

\* the optional regions init() looks up
Regions ==
  {"navbar", "hamburger", "mobileMenu", "darkModeToggle", "contactForm",
   "year", "typingText"}

\* the a[href^="#"] anchors of the page: a bare "#", one whose target exists,
\* one whose target does not
AnchorHrefs == {"#", "#about", "#missing"}

\* document.querySelector(href) finds an element
TargetExists(href) == href = "#about"

\* document.querySelector(href) raises: "#" is not a valid selector
SelectorInvalid(href) == href = "#"

\* the scroll offsets a scroll event can report
ScrollOffsets == {0, ScrollThreshold, ScrollThreshold + 1, AboutOffsetTop}

\* ['name', 'email', 'message']
Fields == <<"name", "email", "message">>

FieldSet == {Fields[k] : k \in 1..Len(Fields)}

\* the field ids, character by character
FieldId(f) ==
  CASE f = "name" -> <<"n", "a", "m", "e">>
    [] f = "email" -> <<"e", "m", "a", "i", "l">>
    [] f = "message" -> <<"m", "e", "s", "s", "a", "g", "e">>

\* what the user can have typed into each field
FieldInputs(f) ==
  CASE f = "name" -> {<<>>, <<" ">>, <<"a">>}
    [] f = "email" ->
         {<<>>, <<" ">>, <<"a", "@", "b">>, <<"a", "@", "b", ".", "c">>,
          <<" ", "a", "@", "b", ".", "c">>}
    [] f = "message" -> {<<>>, <<"a", " ">>}

\* the strings of at most n characters over the alphabet
RECURSIVE StringsUpTo(_, _)
StringsUpTo(alphabet, n) ==
  IF n = 0 THEN {<<>>}
  ELSE LET shorter == StringsUpTo(alphabet, n - 1)
       IN  shorter \cup {Append(t, c) : t \in shorter, c \in alphabet}

\* the email values the email check is tried on: every short string over a
\* letter, "@", "." and a space, and the examples "a@b.co", "a@b",
\* "a b@c.com" and "abc.com"
EmailStrings ==
  StringsUpTo({"a", "@", ".", " "}, MaxEmailLen)
    \cup {<<"a", "@", "b", ".", "c", "o">>, <<"a", "@", "b">>,
          <<"a", " ", "b", "@", "c", ".", "c", "o", "m">>,
          <<"a", "b", "c", ".", "c", "o", "m">>}

\* the texts the .typing-text element can hold in the markup
TypingSource == <<"H", "i", "!", "?">>

TypingTexts == {SubSeq(TypingSource, 1, n) : n \in 0..MaxTextLen}

---------------------------------------------------------------------------
(* Strings *)

LowerCase ==
  <<"a", "b", "c", "d", "e", "f", "g", "h", "i", "j", "k", "l", "m", "n",
    "o", "p", "q", "r", "s", "t", "u", "v", "w", "x", "y", "z">>

UpperCase ==
  <<"A", "B", "C", "D", "E", "F", "G", "H", "I", "J", "K", "L", "M", "N",
    "O", "P", "Q", "R", "S", "T", "U", "V", "W", "X", "Y", "Z">>

\* String.prototype.toUpperCase on one character
ToUpperCase(c) ==
  IF \E k \in 1..Len(LowerCase) : LowerCase[k] = c
  THEN UpperCase[CHOOSE k \in 1..Len(LowerCase) : LowerCase[k] = c]
  ELSE c

\* \s of the regular expression, and what trim() strips
IsSpace(c) == c \in {" ", "\t", "\n"}

RECURSIVE TrimStart(_)
TrimStart(s) ==
  IF s # <<>> /\ IsSpace(Head(s)) THEN TrimStart(Tail(s)) ELSE s

RECURSIVE TrimEnd(_)
TrimEnd(s) ==
  IF s # <<>> /\ IsSpace(s[Len(s)])
  THEN TrimEnd(SubSeq(s, 1, Len(s) - 1))
  ELSE s

\* String.prototype.trim
Trim(s) == TrimEnd(TrimStart(s))

\* field.charAt(0).toUpperCase() + field.slice(1)
Capitalize(s) ==
  IF s = <<>> THEN <<>> ELSE <<ToUpperCase(s[1])>> \o SubSeq(s, 2, Len(s))

\* `${...} is required`
RequiredMessage(f) ==
  Capitalize(FieldId(f))
    \o <<" ", "i", "s", " ", "r", "e", "q", "u", "i", "r", "e", "d">>

InvalidEmailMessage ==
  <<"P", "l", "e", "a", "s", "e", " ", "e", "n", "t", "e", "r", " ", "a",
    " ", "v", "a", "l", "i", "d", " ", "e", "m", "a", "i", "l">>

SuccessMessage == "Thank you for your message! I will get back to you soon."

\* [^\s@]+ matches the whole of s
IsPlainRun(s) ==
  /\ s # <<>>
  /\ \A k \in 1..Len(s) : ~IsSpace(s[k]) /\ s[k] # "@"

\* a bug: the pattern without its dot part, /^[^\s@]+@[^\s@]+$/
ValidateEmail_NoDot(email) ==
  \E at \in 1..Len(email) :
    /\ email[at] = "@"
    /\ IsPlainRun(SubSeq(email, 1, at - 1))
    /\ IsPlainRun(SubSeq(email, at + 1, Len(email)))

\* /^[^\s@]+@[^\s@]+\.[^\s@]+$/.test(email)
ValidateEmail(email) ==
  \E at \in 1..Len(email) :
    \E dot \in (at + 1)..Len(email) :
      /\ email[at] = "@"
      /\ email[dot] = "."
      /\ IsPlainRun(SubSeq(email, 1, at - 1))
      /\ IsPlainRun(SubSeq(email, at + 1, dot - 1))
      /\ IsPlainRun(SubSeq(email, dot + 1, Len(email)))

\* !savedMode
Falsy(s) == s = "null" \/ s = ""

Min(a, b) == IF a <= b THEN a ELSE b

---------------------------------------------------------------------------
(* State *)

VARIABLES
  present,           \* the regions the markup contains
  systemPrefersDark, \* matchMedia('(prefers-color-scheme: dark)').matches
  fadeCount,         \* number of .fade-in elements
  pc,                \* "loading", then "ready" (init returned) or "failed" (init threw)
  lastHandler,       \* the handler delivered last
  thrown,            \* the exception that handler raised, or "none"
  savedMode,         \* localStorage 'darkMode'
  bodyDark,          \* document.body has class dark-mode
  iconMoon,          \* the toggle's icon has class fa-moon
  iconSun,           \* the toggle's icon has class fa-sun
  toggleTrail,       \* <<bodyDark, savedMode>> before each of the last two theme toggles
  menuActive,        \* .mobile-menu has class active
  hamburgerActive,   \* .hamburger has class active
  ariaExpanded,      \* the hamburger's aria-expanded attribute
  navScrolled,       \* .navbar has class scrolled
  scrollY,           \* window.scrollY
  scrollTarget,      \* <<top>> of the last window.scrollTo request, <<>> if none
  typingCaptured,    \* `text` captured by typeEffect
  typingText,        \* textContent of .typing-text
  typingI,           \* `i` of typeEffect
  typingInterval,    \* the interval of typeEffect is set
  typingDue,         \* ms until that interval fires next
  fadeDelay,         \* transitionDelay of each .fade-in element, in tenths of a second
  fadeVisible,       \* the .fade-in elements with class visible
  observed,          \* the elements the IntersectionObserver observes
  yearText,          \* textContent of #year
  fieldValue,        \* value of each input
  fieldError,        \* each input has class error
  errorText,         \* textContent of each input's error sibling
  successText,       \* textContent of #form-success
  successDisplay,    \* style.display of #form-success
  hideTimers,        \* ms left of each pending success timeout, oldest first
  sinceShown         \* ms since showSuccessMessage last ran (capped), -1 if never

envVars == <<present, systemPrefersDark, fadeCount>>

ctlVars == <<pc, lastHandler, thrown>>

themeVars == <<savedMode, bodyDark, iconMoon, iconSun, toggleTrail>>

menuVars == <<menuActive, hamburgerActive, ariaExpanded>>

scrollVars == <<navScrolled, scrollY, scrollTarget>>

typingVars == <<typingCaptured, typingText, typingI, typingInterval, typingDue>>

fadeVars == <<fadeDelay, fadeVisible, observed>>

formVars == <<fieldValue, fieldError, errorText, successText, successDisplay>>

timerVars == <<hideTimers, sinceShown>>

vars ==
  <<envVars, ctlVars, themeVars, menuVars, scrollVars, typingVars, fadeVars,
    yearText, formVars, timerVars>>

Has(region) == region \in present

\* the state of the page when DOMContentLoaded fires
Init ==
  /\ present \in SUBSET Regions
  /\ systemPrefersDark \in BOOLEAN
  /\ fadeCount \in 0..MaxFade
  /\ pc = "loading"
  /\ lastHandler = "none"
  /\ thrown = "none"
  /\ savedMode \in {"null", "dark", "light"}
  /\ bodyDark = FALSE
  /\ iconMoon \in (IF Has("darkModeToggle") THEN BOOLEAN ELSE {FALSE})
  /\ iconSun \in (IF Has("darkModeToggle") THEN BOOLEAN ELSE {FALSE})
  /\ toggleTrail = <<>>
  /\ menuActive = FALSE
  /\ hamburgerActive = FALSE
  /\ ariaExpanded \in (IF Has("hamburger") THEN {"null", "false"} ELSE {"null"})
  /\ navScrolled = FALSE
  /\ scrollY = 0
  /\ scrollTarget = <<>>
  /\ typingCaptured = <<>>
  /\ typingText \in (IF Has("typingText") THEN TypingTexts ELSE {<<>>})
  /\ typingI = 0
  /\ typingInterval = FALSE
  /\ typingDue = 0
  /\ fadeDelay = <<>>
  /\ fadeVisible = {}
  /\ observed = {}
  /\ yearText = ""
  /\ fieldValue = [f \in FieldSet |-> <<>>]
  /\ fieldError = [f \in FieldSet |-> FALSE]
  /\ errorText = [f \in FieldSet |-> <<>>]
  /\ successText = ""
  /\ successDisplay = ""
  /\ hideTimers = <<>>
  /\ sinceShown = -1

---------------------------------------------------------------------------
(* Portfolio.init *)

\* a bug: the ambient preference is consulted even when a preference is stored
InitDarkModeApplies_AmbientAlways(saved, prefersDark) ==
  saved = "dark" \/ prefersDark

\* savedMode === 'dark' || (!savedMode && systemPrefersDark)
InitDarkModeApplies(saved, prefersDark) ==
  saved = "dark" \/ (Falsy(saved) /\ prefersDark)

\* updateDarkModeIcon: classList.toggle('fa-moon', !isDarkMode) and
\* classList.toggle('fa-sun', isDarkMode) set each class to its force argument
UpdateDarkModeIcon(isDarkMode) == [moon |-> ~isDarkMode, sun |-> isDarkMode]

\* this.darkModeToggle.querySelector('i') dereferences a null toggle
UpdateDarkModeIconThrows == ~Has("darkModeToggle")

\* setupScrollAnimations: stagger the delays and observe every .fade-in element
SetupScrollAnimations ==
  /\ fadeDelay' = [k \in 1..fadeCount |-> k - 1]
  /\ observed' = 1..fadeCount
  /\ UNCHANGED fadeVisible

\* setCopyrightYear
SetCopyrightYear ==
  yearText' = IF Has("year") THEN ToString(CurrentYear) ELSE yearText

\* typeEffect: capture the text, clear the element, start the interval
TypeEffect ==
  /\ typingCaptured' = typingText
  /\ typingText' = <<>>
  /\ typingI' = 0
  /\ typingInterval' = TRUE
  /\ typingDue' = TypingPeriod

\* init(): setupEventListeners, setupScrollAnimations, setCopyrightYear,
\* initDarkMode, then typeEffect when .typing-text exists.  An exception of
\* initDarkMode leaves init before typeEffect; the listeners are bound by then.
\* a bug: initDarkMode persisting the theme it applied
StoredAfterInit_PersistsApplied(saved, dark) == IF dark THEN "dark" ELSE saved

\* the 'darkMode' entry after initDarkMode, which reads localStorage with
\* getItem and never calls setItem
StoredAfterInit(saved, dark) == saved

Initialize ==
  /\ pc = "loading"
  /\ lastHandler' = "init"
  /\ SetupScrollAnimations
  /\ SetCopyrightYear
  /\ LET dark == InitDarkModeApplies(savedMode, systemPrefersDark)
         threw == dark /\ UpdateDarkModeIconThrows
         icon == UpdateDarkModeIcon(TRUE)
     IN  /\ bodyDark' = (bodyDark \/ dark)
         /\ iconMoon' = IF dark /\ ~threw THEN icon.moon ELSE iconMoon
         /\ iconSun' = IF dark /\ ~threw THEN icon.sun ELSE iconSun
         /\ savedMode' = StoredAfterInit(savedMode, dark)
         /\ pc' = IF threw THEN "failed" ELSE "ready"
         /\ thrown' = IF threw THEN "TypeError" ELSE "none"
         /\ IF ~threw /\ Has("typingText")
            THEN TypeEffect
            ELSE UNCHANGED typingVars
  /\ UNCHANGED <<envVars, toggleTrail, menuVars, scrollVars,
                 formVars, timerVars>>

\* the listeners are bound once init has run setupEventListeners
Bound == pc # "loading"

---------------------------------------------------------------------------
(* Theme *)

\* a bug: classList.add in place of classList.toggle
ToggleBodyClass_AddOnly(dark) == TRUE

\* document.body.classList.toggle('dark-mode') returns the new presence
ToggleBodyClass(dark) == ~dark

\* a bug: the branches of the conditional swapped
PersistedValue_Swapped(isDarkMode) == IF isDarkMode THEN "light" ELSE "dark"

\* isDarkMode ? 'dark' : 'light'
PersistedValue(isDarkMode) == IF isDarkMode THEN "dark" ELSE "light"

\* the last two entries of the trail, with the state before this toggle appended
Trail(trail, entry) ==
  IF Len(trail) < 2 THEN Append(trail, entry) ELSE <<trail[2], entry>>

\* click on .dark-mode-toggle: toggleDarkMode
ToggleDarkMode ==
  /\ Bound
  /\ Has("darkModeToggle")
  /\ LET isDarkMode == ToggleBodyClass(bodyDark)
         icon == UpdateDarkModeIcon(isDarkMode)
     IN  /\ bodyDark' = isDarkMode
         /\ iconMoon' = icon.moon
         /\ iconSun' = icon.sun
         /\ savedMode' = PersistedValue(isDarkMode)
  /\ toggleTrail' = Trail(toggleTrail, <<bodyDark, savedMode>>)
  /\ lastHandler' = "toggleDarkMode"
  /\ thrown' = "none"
  /\ UNCHANGED <<envVars, pc, menuVars, scrollVars, typingVars, fadeVars,
                 yearText, formVars, timerVars>>

---------------------------------------------------------------------------
(* Mobile menu *)

\* a bug: the negation dropped, setAttribute('aria-expanded', isExpanded)
FlipExpanded_NotNegated(aria) == IF aria = "true" THEN "true" ELSE "false"

\* this.hamburger.setAttribute('aria-expanded', !isExpanded)
FlipExpanded(aria) == IF aria = "true" THEN "false" ELSE "true"

\* toggleMobileMenu on the given menu state: the new state and the exception
\* raised.  A null mobileMenu raises before anything changes; a null hamburger
\* raises after the panel was toggled.
ToggleMobileMenu(menu, ham, aria) ==
  IF ~Has("mobileMenu")
  THEN [menu |-> menu, ham |-> ham, aria |-> aria, thrown |-> "TypeError"]
  ELSE IF ~Has("hamburger")
  THEN [menu |-> ~menu, ham |-> ham, aria |-> aria, thrown |-> "TypeError"]
  ELSE [menu |-> ~menu, ham |-> ~ham, aria |-> FlipExpanded(aria),
        thrown |-> "none"]

\* click on .hamburger
HamburgerClick ==
  /\ Bound
  /\ Has("hamburger")
  /\ LET r == ToggleMobileMenu(menuActive, hamburgerActive, ariaExpanded)
     IN  /\ menuActive' = r.menu
         /\ hamburgerActive' = r.ham
         /\ ariaExpanded' = r.aria
         /\ thrown' = r.thrown
  /\ lastHandler' = "toggleMobileMenu"
  /\ UNCHANGED <<envVars, pc, themeVars, scrollVars, typingVars, fadeVars,
                 yearText, formVars, timerVars>>

---------------------------------------------------------------------------
(* Smooth scrolling and the sticky navbar *)

\* a bug: the condition of the close dropped, the menu toggled on every
\* anchor click
MenuIsOpen_Always == TRUE

\* this.mobileMenu?.classList.contains('active')
MenuIsOpen == Has("mobileMenu") /\ menuActive

\* click on an a[href^="#"] anchor: handleSmoothScroll
HandleSmoothScroll(href) ==
  /\ Bound
  /\ href \in AnchorHrefs
  /\ lastHandler' = "handleSmoothScroll"
  /\ IF SelectorInvalid(href)
     THEN /\ thrown' = "SyntaxError"
          /\ UNCHANGED <<menuVars, scrollTarget>>
     ELSE IF ~TargetExists(href)
     THEN /\ thrown' = "none"
          /\ UNCHANGED <<menuVars, scrollTarget>>
     ELSE /\ scrollTarget' = <<AboutOffsetTop - HeaderOffset>>
          /\ IF MenuIsOpen
             THEN LET r == ToggleMobileMenu(menuActive, hamburgerActive,
                                            ariaExpanded)
                  IN  /\ menuActive' = r.menu
                      /\ hamburgerActive' = r.ham
                      /\ ariaExpanded' = r.aria
                      /\ thrown' = r.thrown
             ELSE /\ thrown' = "none"
                  /\ UNCHANGED menuVars
  /\ UNCHANGED <<envVars, pc, themeVars, navScrolled, scrollY, typingVars,
                 fadeVars, yearText, formVars, timerVars>>

\* a bug: the comparison made inclusive, window.scrollY >= 50
PastThreshold_Inclusive(y) == y >= ScrollThreshold

\* window.scrollY > 50
PastThreshold(y) == y > ScrollThreshold

\* a scroll event at offset y: handleNavbarScroll
HandleNavbarScroll(y) ==
  /\ Bound
  /\ y \in ScrollOffsets
  /\ scrollY' = y
  /\ lastHandler' = "handleNavbarScroll"
  /\ IF Has("navbar")
     THEN /\ navScrolled' = PastThreshold(y)
          /\ thrown' = "none"
     ELSE /\ thrown' = "TypeError"
          /\ UNCHANGED navScrolled
  /\ UNCHANGED <<envVars, pc, themeVars, menuVars, scrollTarget, typingVars,
                 fadeVars, yearText, formVars, timerVars>>

---------------------------------------------------------------------------
(* Typing effect and fade-in *)

\* the interval callback of typeEffect
TypingTick ==
  /\ typingInterval
  /\ typingDue = 0
  /\ IF typingI < Len(typingCaptured)
     THEN /\ typingText' = Append(typingText, typingCaptured[typingI + 1])
          /\ typingI' = typingI + 1
          /\ typingDue' = TypingPeriod
          /\ UNCHANGED typingInterval
     ELSE /\ typingInterval' = FALSE
          /\ typingDue' = 0
          /\ UNCHANGED <<typingText, typingI>>
  /\ lastHandler' = "typingInterval"
  /\ thrown' = "none"
  /\ UNCHANGED <<envVars, pc, themeVars, menuVars, scrollVars, typingCaptured,
                 fadeVars, yearText, formVars, timerVars>>

\* a bug: observer.unobserve(entry.target) left out
Unobserve_Forgotten(obs, intersecting) == obs

\* observer.unobserve(entry.target) for every intersecting entry
Unobserve(obs, intersecting) == obs \ intersecting

\* the IntersectionObserver callback: entries for observed elements, some of
\* them intersecting
IntersectionCallback(entries, intersecting) ==
  /\ Bound
  /\ entries # {}
  /\ entries \subseteq observed
  /\ intersecting \subseteq entries
  /\ fadeVisible' = fadeVisible \cup intersecting
  /\ observed' = Unobserve(observed, intersecting)
  /\ lastHandler' = "intersection"
  /\ thrown' = "none"
  /\ UNCHANGED <<envVars, pc, themeVars, menuVars, scrollVars, typingVars,
                 fadeDelay, yearText, formVars, timerVars>>

---------------------------------------------------------------------------
(* Contact form *)

\* a bug: the format check of the email field left out
FieldMessage_NoFormatCheck(f, data) ==
  IF data = <<>> THEN RequiredMessage(f) ELSE <<>>

\* the message handleFormSubmit shows for field f holding the trimmed value
\* data, <<>> when the field passes
FieldMessage(f, data) ==
  IF data = <<>> THEN RequiredMessage(f)
  ELSE IF f = "email" /\ ~ValidateEmail(data) THEN InvalidEmailMessage
  ELSE <<>>

\* the user edits one input
FillField(f, v) ==
  /\ Bound
  /\ Has("contactForm")
  /\ f \in FieldSet
  /\ fieldValue' = [fieldValue EXCEPT ![f] = v]
  /\ lastHandler' = "none"
  /\ thrown' = "none"
  /\ UNCHANGED <<envVars, pc, themeVars, menuVars, scrollVars, typingVars,
                 fadeVars, yearText, fieldError, errorText, successText,
                 successDisplay, timerVars>>

\* showError adds the class; nothing removes it
ErrorClassAfter(had, failed) == had \/ failed

\* the .error-message reset followed by showError for a failing field
ErrorTextAfter(old, message) == message

\* contactForm.reset()
ResetValue(v) == <<>>

\* submit of #contact-form: handleFormSubmit, with showError and
\* showSuccessMessage
HandleFormSubmit ==
  /\ Bound
  /\ Has("contactForm")
  /\ LET formData == [f \in FieldSet |-> Trim(fieldValue[f])]
         message == [f \in FieldSet |-> FieldMessage(f, formData[f])]
         isValid == \A f \in FieldSet : message[f] = <<>>
     IN  /\ isValid => Len(hideTimers) < MaxTimers
         /\ errorText' = [f \in FieldSet |-> ErrorTextAfter(errorText[f], message[f])]
         /\ fieldError' =
              [f \in FieldSet |-> ErrorClassAfter(fieldError[f], message[f] # <<>>)]
         /\ IF isValid
            THEN /\ successText' = SuccessMessage
                 /\ successDisplay' = "block"
                 /\ hideTimers' = Append(hideTimers, SuccessDelay)
                 /\ sinceShown' = 0
                 /\ fieldValue' = [f \in FieldSet |-> ResetValue(fieldValue[f])]
            ELSE UNCHANGED <<successText, successDisplay, hideTimers,
                             sinceShown, fieldValue>>
  /\ lastHandler' = "handleFormSubmit"
  /\ thrown' = "none"
  /\ UNCHANGED <<envVars, pc, themeVars, menuVars, scrollVars, typingVars,
                 fadeVars, yearText>>

\* the timeout callback of showSuccessMessage
HideSuccess ==
  /\ hideTimers # <<>>
  /\ Head(hideTimers) = 0
  /\ successDisplay' = "none"
  /\ hideTimers' = Tail(hideTimers)
  /\ lastHandler' = "successTimeout"
  /\ thrown' = "none"
  /\ UNCHANGED <<envVars, pc, themeVars, menuVars, scrollVars, typingVars,
                 fadeVars, yearText, fieldValue, fieldError, errorText,
                 successText, sinceShown>>

---------------------------------------------------------------------------
(* Time *)

\* ms until the next pending timer is due, TimeStep when none is pending
NextDue ==
  Min(IF hideTimers # <<>> THEN Head(hideTimers) ELSE TimeStep,
      IF typingInterval THEN typingDue ELSE TimeStep)

\* time passes, at most up to the next due timer
Advance ==
  /\ Bound
  /\ LET d == Min(TimeStep, NextDue)
     IN  /\ d > 0
         /\ hideTimers' = [k \in 1..Len(hideTimers) |-> hideTimers[k] - d]
         /\ typingDue' = IF typingInterval THEN typingDue - d ELSE typingDue
         /\ sinceShown' =
              IF sinceShown < 0 THEN sinceShown
              ELSE Min(sinceShown + d, SuccessDelay)
  /\ lastHandler' = "none"
  /\ thrown' = "none"
  /\ UNCHANGED <<envVars, pc, themeVars, menuVars, scrollVars,
                 typingCaptured, typingText, typingI, typingInterval,
                 fadeVars, yearText, formVars>>

---------------------------------------------------------------------------
(* Specifications *)

\* the inputs of the features a specification does not exercise, held at one value
PlainTheme ==
  /\ savedMode = "null"
  /\ Has("darkModeToggle") => iconMoon /\ ~iconSun

PlainTyping == Has("typingText") => Len(typingText) = MaxTextLen

PlainFade == fadeCount = MaxFade

\* every event and callback
Next ==
  \/ Initialize
  \/ ToggleDarkMode
  \/ HamburgerClick
  \/ \E href \in AnchorHrefs : HandleSmoothScroll(href)
  \/ \E y \in ScrollOffsets : HandleNavbarScroll(y)
  \/ TypingTick
  \/ \E entries \in SUBSET (1..MaxFade) :
       \E intersecting \in SUBSET entries :
         IntersectionCallback(entries, intersecting)
  \/ \E f \in FieldSet : \E v \in FieldInputs(f) : FillField(f, v)
  \/ HandleFormSubmit
  \/ HideSuccess
  \/ Advance

\* page load and theme toggles, on every page, stored and ambient preference
\* and icon markup
NextTheme ==
  \/ Initialize
  \/ ToggleDarkMode

SpecTheme == Init /\ [][NextTheme]_vars

\* page load, hamburger clicks, anchor clicks and scroll events, on every
\* subset of the regions
InitNav == Init /\ PlainTheme /\ PlainTyping /\ PlainFade

NextNav ==
  \/ Initialize
  \/ HamburgerClick
  \/ \E href \in AnchorHrefs : HandleSmoothScroll(href)
  \/ \E y \in ScrollOffsets : HandleNavbarScroll(y)

SpecNav == InitNav /\ [][NextNav]_vars

\* page load, form edits, submits, the success timeouts and the passing of
\* time, on the page that holds the contact form alone; with a dark ambient
\* scheme init raises on it after binding the submit listener
InitForm ==
  /\ Init
  /\ present = {"contactForm"}
  /\ savedMode = "null"
  /\ PlainFade

NextForm ==
  \/ Initialize
  \/ \E f \in FieldSet : \E v \in FieldInputs(f) : FillField(f, v)
  \/ HandleFormSubmit
  \/ HideSuccess
  \/ Advance

SpecForm == InitForm /\ [][NextForm]_vars

\* every event and callback, interleaved on two pages: the page with every
\* region but the contact form, under every stored and ambient preference,
\* and the page with the contact form, the theme toggle and one .fade-in
\* element.  The form is edited with the inputs of CoreInputs, submitted
\* while no success timeout is pending, and scroll events report an offset
\* at or just past the threshold.
CoreInputs(f) ==
  CASE f = "name" -> {<<"a">>}
    [] f = "email" -> {<<"a", "@", "b">>, <<"a", "@", "b", ".", "c">>}
    [] f = "message" -> {<<"a", " ">>}

InitPages ==
  /\ Init
  /\ \/ /\ present = Regions \ {"contactForm"}
        /\ iconMoon /\ ~iconSun
        /\ ariaExpanded = "false"
        /\ PlainTyping
        /\ PlainFade
     \/ /\ present = {"contactForm", "darkModeToggle"}
        /\ PlainTheme
        /\ ~systemPrefersDark
        /\ fadeCount = 1

NextPages ==
  \/ Initialize
  \/ ToggleDarkMode
  \/ HamburgerClick
  \/ \E href \in AnchorHrefs : HandleSmoothScroll(href)
  \/ \E y \in {ScrollThreshold, ScrollThreshold + 1} : HandleNavbarScroll(y)
  \/ TypingTick
  \/ \E entries \in SUBSET (1..MaxFade) :
       \E intersecting \in SUBSET entries :
         IntersectionCallback(entries, intersecting)
  \/ \E f \in FieldSet : \E v \in CoreInputs(f) : FillField(f, v)
  \/ hideTimers = <<>> /\ HandleFormSubmit
  \/ HideSuccess
  \/ Advance

Spec == InitPages /\ [][NextPages]_vars

\* page load, the typing interval and the passing of time, on every subset of
\* the regions and every text; the event loop runs a due interval callback
\* and time does not stop
InitTyping ==
  /\ Init
  /\ PlainTheme
  /\ PlainFade

NextTyping ==
  \/ Initialize
  \/ TypingTick
  \/ Advance

SpecTyping ==
  /\ InitTyping
  /\ [][NextTyping]_vars
  /\ WF_vars(Initialize)
  /\ WF_vars(TypingTick)
  /\ WF_vars(Advance)

\* page load, one edit of the empty email field and submits, on the page that
\* holds the contact form alone, for every email value of EmailStrings
InitEmail ==
  /\ InitForm
  /\ ~systemPrefersDark

NextEmail ==
  \/ Initialize
  \/ \E v \in EmailStrings :
       fieldValue["email"] = <<>> /\ FillField("email", v)
  \/ HandleFormSubmit

SpecEmail == InitEmail /\ [][NextEmail]_vars

---------------------------------------------------------------------------
(* Claims *)

\* C1: init() runs to completion on every page and starts every feature whose
\* elements are present: it raises nothing, the typing effect is started when
\* .typing-text exists, the year is set when #year exists, every .fade-in
\* element is observed and the dark visuals and the icon are applied when the
\* preference is dark.
C1_InitCompletesAndStartsFeatures ==
  lastHandler = "init" =>
    /\ pc = "ready"
    /\ thrown = "none"
    /\ Has("typingText") => typingInterval
    /\ Has("year") => yearText = ToString(CurrentYear)
    /\ observed = 1..fadeCount
    /\ (savedMode = "dark" \/ (savedMode = "null" /\ systemPrefersDark)) => bodyDark

\* C4 as stated: two theme toggles restore the body class and the persisted
\* value, whatever the state before them, an unset preference included.
C4_TwoTogglesRestoreAll ==
  Len(toggleTrail) = 2 =>
    /\ bodyDark = toggleTrail[1][1]
    /\ savedMode = toggleTrail[1][2]

\* C4 amended: two theme toggles restore the body class; they restore the
\* persisted value when one was stored, and leave "dark" or "light" matching
\* the restored body class when none was.
C4_TwoTogglesRestoreTheme ==
  Len(toggleTrail) = 2 =>
    /\ bodyDark = toggleTrail[1][1]
    /\ toggleTrail[1][2] # "null" => savedMode = toggleTrail[1][2]
    /\ toggleTrail[1][2] = "null" =>
         savedMode = (IF toggleTrail[1][1] THEN "dark" ELSE "light")

C4_Witness ==
  /\ Len(toggleTrail) = 2
  /\ toggleTrail[1][2] = "null"
  /\ savedMode = "light"
  /\ ~bodyDark

\* C5: right after a theme toggle the persisted value is "dark" exactly when
\* the body is dark and "light" exactly when it is not, and the persisted
\* value is always unset, "dark" or "light".
C5_PersistedMatchesBody ==
  /\ savedMode \in {"null", "dark", "light"}
  /\ lastHandler = "toggleDarkMode" =>
       /\ bodyDark => savedMode = "dark"
       /\ ~bodyDark => savedMode = "light"

C5_Witness ==
  /\ lastHandler = "toggleDarkMode"
  /\ Len(toggleTrail) = 2
  /\ bodyDark
  /\ savedMode = "dark"

\* C6: after load the body is dark exactly when the stored value is "dark", or
\* nothing is stored and the ambient scheme is dark; a stored "light" wins
\* over an ambient dark preference.
C6_LoadPrecedence ==
  lastHandler = "init" =>
    /\ bodyDark <=> (savedMode = "dark" \/ (savedMode = "null" /\ systemPrefersDark))
    /\ (savedMode = "light" /\ systemPrefersDark) => ~bodyDark

C6_Witness ==
  /\ lastHandler = "init"
  /\ savedMode = "light"
  /\ systemPrefersDark
  /\ ~bodyDark

\* C7: once the theme is initialised, and after every toggle, the icon has the
\* sun marker and not the moon marker exactly when the body is dark, and the
\* moon marker and not the sun marker exactly when it is light, whatever
\* marker the markup gave the icon.
C7_IconReflectsTheme ==
  (Bound /\ Has("darkModeToggle")) =>
    /\ iconSun <=> bodyDark
    /\ iconMoon <=> ~bodyDark

\* C2: once init has completed, no scroll event, anchor click or hamburger
\* click raises on a region the page lacks (a TypeError on the null
\* reference), whichever regions are absent.
C2_NoThrowOnAbsentRegion ==
  (/\ pc = "ready"
   /\ lastHandler \in {"handleNavbarScroll", "handleSmoothScroll",
                        "toggleMobileMenu"})
    => thrown # "TypeError"

\* C10: in every state reached from the closed menu by hamburger clicks and
\* anchor clicks, the menu panel is active exactly when aria-expanded is
\* "true", and exactly when the hamburger is active.
C10_MenuOpenIffExpanded ==
  /\ menuActive <=> ariaExpanded = "true"
  /\ menuActive <=> hamburgerActive

C10_Witness ==
  /\ lastHandler = "toggleMobileMenu"
  /\ thrown = "none"
  /\ menuActive
  /\ ariaExpanded = "true"

\* a field fails a submit: empty once trimmed, or an email off the pattern
Fails(f, value) ==
  \/ Trim(value) = <<>>
  \/ f = "email" /\ ~ValidateEmail(Trim(value))

\* C3: after a submit the fields marked invalid are exactly the fields that
\* failed this submit: a failing field has the error class and a message (the
\* literal "<Field> is required" when it is empty), a passing field has
\* neither, even if it failed an earlier submit, and the values stay when a
\* field fails.
C3_MarkedExactlyLatestFailures ==
  [][(pc = "ready" /\ lastHandler' = "handleFormSubmit") =>
       /\ \A f \in FieldSet :
            /\ fieldError'[f] <=> Fails(f, fieldValue[f])
            /\ (errorText'[f] # <<>>) <=> Fails(f, fieldValue[f])
            /\ Trim(fieldValue[f]) = <<>> => errorText'[f] = RequiredMessage(f)
       /\ (\E f \in FieldSet : Fails(f, fieldValue[f])) => fieldValue' = fieldValue
    ]_vars

\* C8: on a page whose init completed, for SuccessDelay ms from the latest
\* successful submit the success element is visible with the success text,
\* and once the timeouts have run it is hidden.
C8_SuccessVisibleForFullDelay ==
  pc = "ready" =>
    /\ (sinceShown >= 0 /\ sinceShown < SuccessDelay) =>
         /\ successDisplay = "block"
         /\ successText = SuccessMessage
    /\ (sinceShown = SuccessDelay /\ hideTimers = <<>>) => successDisplay = "none"

\* C9: a submit shows the success message and empties the three fields exactly
\* when all three trimmed values are non-empty and the email matches the
\* pattern; otherwise it leaves the values, the visibility and the text of
\* the success element as they were.
C9_SuccessIffAllValid ==
  [][lastHandler' = "handleFormSubmit" =>
       LET allValid ==
             /\ \A f \in FieldSet : Trim(fieldValue[f]) # <<>>
             /\ ValidateEmail(Trim(fieldValue["email"]))
       IN  IF allValid
           THEN /\ successDisplay' = "block"
                /\ successText' = SuccessMessage
                /\ hideTimers' = Append(hideTimers, SuccessDelay)
                /\ \A f \in FieldSet : fieldValue'[f] = <<>>
           ELSE /\ fieldValue' = fieldValue
                /\ successDisplay' = successDisplay
                /\ successText' = successText
                /\ hideTimers' = hideTimers
    ]_vars

C9_Witness ==
  /\ lastHandler = "handleFormSubmit"
  /\ successDisplay = "block"
  /\ sinceShown = 0
  /\ \A f \in FieldSet : fieldValue[f] = <<>> /\ errorText[f] = <<>>
  /\ fieldError["email"]

\* C11: a .fade-in element becomes visible at most once and never goes back:
\* no step of any handler removes the visible class; the class is added only
\* by the intersection callback, to elements it observed, and those elements
\* are unobserved by the same callback, so no visible element is observed.
C11_FadeInOnceAndMonotonic ==
  [][/\ fadeVisible \subseteq fadeVisible'
     /\ fadeVisible' # fadeVisible =>
          /\ lastHandler' = "intersection"
          /\ (fadeVisible' \ fadeVisible) \subseteq observed
     /\ fadeVisible' \cap observed' = {}
    ]_vars

C11_Witness ==
  /\ lastHandler = "toggleDarkMode"
  /\ fadeVisible = {1}
  /\ observed = {2}

\* C12: on every loaded page with a .typing-text element the typing effect
\* has run once: the displayed text is the prefix of the captured text that
\* the ticks have appended so far, and it is the whole captured text once the
\* interval is cancelled.
C12_TypingRunsOnceToFullText ==
  (pc # "loading" /\ Has("typingText")) =>
    /\ typingText = SubSeq(typingCaptured, 1, typingI)
    /\ typingInterval \/ typingText = typingCaptured

\* C12 on the pages whose init completes: the effect started by init ends
\* with the whole captured text shown and the interval cancelled, and stays so.
C12_CompletesWhenStarted ==
  (pc = "ready" /\ Has("typingText")) ~>
    [](typingText = typingCaptured /\ ~typingInterval)

\* C12 on the pages whose init completes: every tick appends exactly the next
\* character or cancels the interval, and nothing else changes the text.
C12_TicksAppendNextCharacter ==
  [][(pc = "ready" /\ typingText' # typingText) =>
       /\ lastHandler' = "typingInterval"
       /\ typingI < Len(typingCaptured)
       /\ typingText' = Append(typingText, typingCaptured[typingI + 1])
    ]_vars

\* the shape local@domain.tld as C13 words it: no whitespace, exactly one "@",
\* something before it, and after it a "." with at least one character of
\* the part after the "@" on each side
HasEmailShape(t) ==
  /\ \A k \in 1..Len(t) : t[k] \notin {" ", "\t", "\n"}
  /\ Cardinality({k \in 1..Len(t) : t[k] = "@"}) = 1
  /\ LET at == CHOOSE k \in 1..Len(t) : t[k] = "@"
     IN  /\ at > 1
         /\ \E dot \in (at + 2)..(Len(t) - 1) : t[dot] = "."

\* C13: validateEmail accepts exactly the strings of the shape
\* local@domain.tld, and a submit shows "Email is required" for an email that
\* is empty once trimmed, "Please enter a valid email" for a trimmed value off
\* the shape, and no message for one of the shape.
C13_EmailAcceptedIffShape ==
  LET email == fieldValue["email"]
  IN  /\ ValidateEmail(email) <=> HasEmailShape(email)
      /\ lastHandler = "handleFormSubmit" =>
           errorText["email"] =
             (IF Trim(email) = <<>>
              THEN <<"E", "m", "a", "i", "l", " ", "i", "s", " ", "r", "e",
                     "q", "u", "i", "r", "e", "d">>
              ELSE IF HasEmailShape(Trim(email)) THEN <<>>
              ELSE InvalidEmailMessage)

C13_Witness ==
  /\ lastHandler = "handleFormSubmit"
  /\ fieldValue["email"] = <<"a", "@", "b", ".", "c", "o">>
  /\ errorText["email"] = <<>>
  /\ errorText["name"] # <<>>

\* C14: on a page with a navbar, the navbar has the scrolled class exactly
\* when the offset of the latest scroll event exceeds 50, whatever the earlier
\* offsets were and whichever handlers ran since; at offset 50 exactly it does
\* not have it.
C14_ScrolledIffPastFifty ==
  (Has("navbar") /\ pc # "loading") => (navScrolled <=> scrollY > 50)

C14_Witness ==
  /\ lastHandler = "handleNavbarScroll"
  /\ Has("navbar")
  /\ scrollY = 50
  /\ ~navScrolled

\* C15: every toggle of the mobile menu by the hamburger flips the panel and
\* the expanded state of the hamburger, so that from the closed state an odd
\* number of toggles leaves the menu open and the hamburger expanded, an even
\* number leaves both closed, and two consecutive toggles restore the state.
C15_EveryToggleFlips ==
  [][(pc = "ready" /\ lastHandler' = "toggleMobileMenu")
       => /\ menuActive' = ~menuActive
          /\ hamburgerActive' = ~hamburgerActive
          /\ (ariaExpanded' = "true") = ~(ariaExpanded = "true")]_vars

\* the same on the pages that hold the hamburger and the menu panel both
C15_EveryToggleFlipsWithPanel ==
  [][(/\ pc = "ready"
      /\ lastHandler' = "toggleMobileMenu"
      /\ Has("mobileMenu"))
       => /\ menuActive' = ~menuActive
          /\ hamburgerActive' = ~hamburgerActive
          /\ (ariaExpanded' = "true") = ~(ariaExpanded = "true")]_vars

\* C16: after the click handler of any in-page anchor the menu panel is not
\* active and the hamburger is not expanded, whether the menu was open or
\* closed before the click.
C16_AnchorClickClosesMenu ==
  [][(pc = "ready" /\ lastHandler' = "handleSmoothScroll")
       => /\ ~menuActive'
          /\ ~hamburgerActive'
          /\ ariaExpanded' # "true"]_vars

\* C17: only a theme toggle changes the stored preference; init, menu
\* toggles, anchor clicks, scroll events, form edits and submits, the typing
\* interval, the observer callback and the success timeout leave it as it
\* was, and every theme toggle writes the value of the resulting theme.
C17_OnlyToggleWritesPreference ==
  [][/\ savedMode' # savedMode => lastHandler' = "toggleDarkMode"
     /\ lastHandler' = "toggleDarkMode" =>
          savedMode' = (IF bodyDark' THEN "dark" ELSE "light")
     /\ lastHandler' = "init" => savedMode' = savedMode]_vars

\* init has applied dark visuals from the ambient preference and other
\* handlers have run, with nothing stored
C17_Witness ==
  /\ pc = "ready"
  /\ savedMode = "null"
  /\ bodyDark
  /\ systemPrefersDark
  /\ lastHandler = "handleSmoothScroll"
  /\ ~menuActive
  /\ scrollTarget # <<>>

\* a step changes the state of a feature only when it is a step of one of the
\* feature's own handlers, the handlers that may change the menu being given:
\* theme (body class, icon, stored preference), menu (panel, hamburger),
\* navbar (scrolled class), form (fields, error markings, success element) and
\* the typing element
OwnEventsOnly(menuHandlers) ==
  /\ <<savedMode, bodyDark, iconMoon, iconSun>>'
       # <<savedMode, bodyDark, iconMoon, iconSun>>
       => lastHandler' \in {"init", "toggleDarkMode"}
  /\ menuVars' # menuVars => lastHandler' \in menuHandlers
  /\ navScrolled' # navScrolled => lastHandler' = "handleNavbarScroll"
  /\ formVars' # formVars
       => lastHandler' \in {"handleFormSubmit", "successTimeout", "none"}
  /\ (lastHandler' = "none" /\ formVars' # formVars)
       => <<fieldError, errorText, successText, successDisplay>>'
            = <<fieldError, errorText, successText, successDisplay>>
  /\ <<typingCaptured, typingText, typingI, typingInterval>>'
       # <<typingCaptured, typingText, typingI, typingInterval>>
       => lastHandler' \in {"init", "typingInterval"}

\* C18 as stated: in every interleaving each feature's state is changed by
\* its own events only, the menu's own event being the menu toggle.
C18_OwnEventsOnlyAsStated == [][OwnEventsOnly({"toggleMobileMenu"})]_vars

\* C18, amended: in every interleaving each feature's state is changed by its
\* own events only, where the menu panel and hamburger state is changed by
\* menu toggles and also by anchor clicks, which close an open menu and do
\* nothing else to it.
C18_OwnEventsOnly ==
  [][/\ OwnEventsOnly({"toggleMobileMenu", "handleSmoothScroll"})
     /\ (lastHandler' = "handleSmoothScroll" /\ menuVars' # menuVars)
          => /\ menuActive
             /\ ~menuActive'
             /\ ariaExpanded' = "false"]_vars

\* a theme toggle and a typing tick have run while the menu, opened by the
\* hamburger, is still open and the navbar still scrolled
C18_Witness ==
  /\ lastHandler = "typingInterval"
  /\ menuActive
  /\ ariaExpanded = "true"
  /\ navScrolled
  /\ savedMode = "dark"
  /\ typingText # <<>>

=============================================================================
